---- MODULE Spec2Model ----
(***************************************************************************)
(* String Analyzer service (FastAPI): the analyzer, the JSON file store,   *)
(* the natural-language parser and the five request handlers of app/api.py.*)
(*                                                                         *)
(* A Python str is a sequence of one-character strings; the three Greek    *)
(* sigmas are written by name ("SIGMA" is U+03A3, "sigma" U+03C3 and       *)
(* "sigma_f", the final form, U+03C2).  The SHA-256 hex                    *)
(* digest is represented by an injective numeral of the characters         *)
(* (collision resistance is assumed, the digest is not the value itself).  *)
(* A Python dict is either a sequence of [key, obj] entries in insertion   *)
(* order (the store) or a function whose DOMAIN is the set of present keys *)
(* (query parameters and parsed filters; a parameter that is None is a key *)
(* that is absent).                                                        *)
(***************************************************************************)
EXTENDS Integers, Sequences, FiniteSets, TLC

VARIABLES
    file,     \* data/strings.json: [text, entries]
    now,      \* the UTC clock read by analyze_string
    resp,     \* the response of the request being answered (op = "none": idle)
    procs,    \* the concurrent requests in flight (SpecConc)
    value,    \* the analyzer's input (SpecAnalyze)
    record,   \* the analyzer's output (SpecAnalyze)
    query,    \* the parser's input (SpecParse)
    filters   \* the parser's output (SpecParse)

vars == <<file, now, resp, procs, value, record, query, filters>>

(***************************** bounds ***************************************)
MaxClock == 1
MaxLength == 2
MaxWords == 1
MaxLen == 4
MaxTokens == 4
NumProcs == 2

(***************************** characters ***********************************)
LowerLetters ==
    {"a","b","c","d","e","f","g","h","i","j","k","l","m",
     "n","o","p","q","r","s","t","u","v","w","x","y","z"}

LowerSeq ==
    <<"a","b","c","d","e","f","g","h","i","j","k","l","m",
      "n","o","p","q","r","s","t","u","v","w","x","y","z">>

UpperSeq ==
    <<"A","B","C","D","E","F","G","H","I","J","K","L","M",
      "N","O","P","Q","R","S","T","U","V","W","X","Y","Z">>

UpperLetters == {UpperSeq[i] : i \in 1..Len(UpperSeq)}

Digits == {"0","1","2","3","4","5","6","7","8","9"}

Whitespace == {" ", "\t"}

None == [none |-> TRUE]

\* str.lower() on one character
Lower(c) ==
    IF c \in UpperLetters
    THEN LowerSeq[CHOOSE i \in 1..Len(UpperSeq) : UpperSeq[i] = c]
    ELSE c

\* str.isalnum() on one character
IsAlnum(c) ==
    c \in LowerLetters \cup UpperLetters \cup Digits \cup {"SIGMA", "sigma", "sigma_f"}

\* str.isspace() on one character
IsSpace(c) == c \in Whitespace

\* the Unicode properties Cased and Case_Ignorable, which str.lower() reads
\* around a capital sigma
Cased(c) == c \in LowerLetters \cup UpperLetters \cup {"SIGMA", "sigma", "sigma_f"}

CaseIgnorable(c) == c \in {"'", ".", ":"}

\* s[i] is in the Final_Sigma context: a cased character before it and none
\* after it, case-ignorable characters skipped
FinalSigma(s, i) ==
    LET before == {j \in 1..(i - 1) : ~CaseIgnorable(s[j])}
        after == {j \in (i + 1)..Len(s) : ~CaseIgnorable(s[j])}
    IN  /\ before # {}
        /\ Cased(s[CHOOSE j \in before : \A k \in before : k <= j])
        /\ \/ after = {}
           \/ ~Cased(s[CHOOSE j \in after : \A k \in after : j <= k])

\* str.lower()
LowerStr(s) ==
    [i \in 1..Len(s) |->
        IF s[i] = "SIGMA"
        THEN IF FinalSigma(s, i) THEN "sigma_f" ELSE "sigma"
        ELSE Lower(s[i])]

Reverse(s) == [i \in 1..Len(s) |-> s[Len(s) + 1 - i]]

(***************************** analyzer *************************************)
\* The characters a stored or analyzed value is made of, in the order that
\* numbers them for the digest.
AlphabetSeq == <<"a", "b", "A", "B", " ", "!", ".", "1", "SIGMA", "sigma">>

Code(c) == CHOOSE i \in 1..Len(AlphabetSeq) : AlphabetSeq[i] = c

RECURSIVE Digest(_, _)
Digest(s, h) ==
    IF s = <<>> THEN h
    ELSE Digest(Tail(s), h * (Len(AlphabetSeq) + 1) + Code(Head(s)))

sha256_hash_lower(v) == Digest(LowerStr(v), 0)

sha256_hash(v) == Digest(v, 0)

character_frequency_map(v) ==
    [c \in {v[i] : i \in 1..Len(v)} |-> Cardinality({i \in 1..Len(v) : v[i] = c})]

\* len(value.split()): the maximal runs of non-whitespace characters
WordCount(v) ==
    Cardinality({i \in 1..Len(v) :
        /\ ~IsSpace(v[i])
        /\ (i = 1 \/ IsSpace(v[i - 1]))})

is_palindrome_of(v) ==
    LET normalized_value == LowerStr(v)
        cleaned_value == SelectSeq(normalized_value, IsAlnum)
    IN  cleaned_value = Reverse(cleaned_value)

analyze_string_id_of_lower(v, t) ==
    [id |-> sha256_hash(v),
     value |-> v,
     properties |->
        [length |-> Len(v),
         is_palindrome |-> is_palindrome_of(v),
         unique_characters |-> Cardinality({v[i] : i \in 1..Len(v)}),
         word_count |-> WordCount(v),
         sha256_hash |-> sha256_hash_lower(v),
         character_frequency_map |-> character_frequency_map(v)],
     created_at |-> t]

analyze_string(v, t) ==
    LET _id == sha256_hash(v)
    IN  [id |-> _id,
         value |-> v,
         properties |->
            [length |-> Len(v),
             is_palindrome |-> is_palindrome_of(v),
             unique_characters |-> Cardinality({v[i] : i \in 1..Len(v)}),
             word_count |-> WordCount(v),
             sha256_hash |-> _id,
             character_frequency_map |-> character_frequency_map(v)],
         created_at |-> t]

(***************************** file storage *********************************)
\* The file holds a JSON object ("json", with its entries), nothing ("empty")
\* or bytes that are no JSON document ("garbled").
\* ensure_data_dir: json.dump({}, f)
EmptyFile == [text |-> "json", entries |-> <<>>]

\* open(file_path, 'w') before anything is written
Truncated == [text |-> "empty", entries |-> <<>>]

\* a shorter document written over the head of a longer one
Garbled == [text |-> "garbled", entries |-> <<>>]

\* json.dump(data, f) into the file
Dumped(data) == [text |-> "json", entries |-> data]

\* FileStorage.all: json.load, or {} on a JSONDecodeError
all(f) == IF f.text = "json" THEN f.entries ELSE <<>>

KeyIn(data, key) == \E i \in 1..Len(data) : data[i].key = key

\* data[key] = obj: a present key keeps its place, a new key goes last
DictSet(data, key, obj) ==
    IF KeyIn(data, key)
    THEN [i \in 1..Len(data) |->
            IF data[i].key = key THEN [key |-> key, obj |-> obj] ELSE data[i]]
    ELSE Append(data, [key |-> key, obj |-> obj])

\* del data[key]
DictDel(data, key) == SelectSeq(data, LAMBDA e : e.key # key)

\* data.get(key)
DictGet(data, key) ==
    IF KeyIn(data, key)
    THEN data[CHOOSE i \in 1..Len(data) : data[i].key = key].obj
    ELSE None

save_object(f, key, obj) == Dumped(DictSet(all(f), key, obj))

get_object_first(f, key) ==
    IF all(f) = <<>> THEN None ELSE all(f)[1].obj

get_object(f, key) == DictGet(all(f), key)

exists(f, key) == KeyIn(all(f), key)

delete_object_all(f, key) ==
    IF KeyIn(all(f), key) THEN Dumped(<<>>) ELSE f

delete_object(f, key) ==
    IF KeyIn(all(f), key) THEN Dumped(DictDel(all(f), key)) ELSE f

(***************************** natural-language parser **********************)
W_palindrom == <<"p", "a", "l", "i", "n", "d", "r", "o", "m">>
W_palindromic == <<"p", "a", "l", "i", "n", "d", "r", "o", "m", "i", "c">>
W_single_word == <<"s", "i", "n", "g", "l", "e", " ", "w", "o", "r", "d">>
W_one_word == <<"o", "n", "e", " ", "w", "o", "r", "d">>
W_two_word == <<"t", "w", "o", " ", "w", "o", "r", "d">>
W_longer_than == <<"l", "o", "n", "g", "e", "r", " ", "t", "h", "a", "n", " ">>
W_contain == <<"c", "o", "n", "t", "a", "i", "n">>
W_s == <<"s">>
W_ing == <<"i", "n", "g">>
W_the == <<"t", "h", "e">>
W_letter == <<"l", "e", "t", "t", "e", "r">>
W_first_vowel == <<"f", "i", "r", "s", "t", " ", "v", "o", "w", "e", "l">>

\* s[i:].startswith(w), i counted from 1
StartsWithAt(s, i, w) ==
    /\ i + Len(w) - 1 <= Len(s)
    /\ \A j \in 1..Len(w) : s[i + j - 1] = w[j]

\* w in s
Contains(s, w) == \E i \in 1..(Len(s) - Len(w) + 1) : StartsWithAt(s, i, w)

\* str.strip()
Strip(s) ==
    LET inked == {i \in 1..Len(s) : ~IsSpace(s[i])}
    IN  IF inked = {} THEN <<>>
        ELSE SubSeq(s, CHOOSE a \in inked : \A b \in inked : a <= b,
                       CHOOSE a \in inked : \A b \in inked : a >= b)

\* the first index >= i that is past the end of s or holds a character outside cs
RECURSIVE RunEnd(_, _, _)
RunEnd(s, i, cs) ==
    IF i <= Len(s) /\ s[i] \in cs THEN RunEnd(s, i + 1, cs) ELSE i

RECURSIVE IntOf(_, _)
IntOf(ds, n) ==
    IF ds = <<>> THEN n
    ELSE IntOf(Tail(ds), 10 * n +
            (CHOOSE d \in 0..9 : <<"0","1","2","3","4","5","6","7","8","9">>[d + 1] = Head(ds)))

\* r"longer than (\d+)" matched at i
LongerThanAt(s, i) ==
    /\ StartsWithAt(s, i, W_longer_than)
    /\ i + Len(W_longer_than) <= Len(s)
    /\ s[i + Len(W_longer_than)] \in Digits

\* int(length_match.group(1)) of the leftmost match (\d+ is greedy)
LongerThanGroup(s) ==
    LET i == CHOOSE a \in 1..Len(s) :
                 LongerThanAt(s, a) /\ \A b \in 1..(a - 1) : ~LongerThanAt(s, b)
        d == i + Len(W_longer_than)
    IN  IntOf(SubSeq(s, d, RunEnd(s, d, Digits) - 1), 0)

NoMatch == ""

\* ([a-z]) at q
LetterGroup(s, q) ==
    IF q <= Len(s) /\ s[q] \in LowerLetters THEN s[q] ELSE NoMatch

\* w\s+ at q: the index after it, or 0.  \s+ is greedy; giving whitespace back
\* leaves a whitespace character next, which no later part of the pattern takes.
WordThenSpace(s, q, w) ==
    IF StartsWithAt(s, q, w) /\ q + Len(w) <= Len(s) /\ IsSpace(s[q + Len(w)])
    THEN RunEnd(s, q + Len(w), Whitespace)
    ELSE 0

\* (?:letter\s+)?([a-z]) at q: the optional group is tried first
LetterPart(s, q) ==
    LET q2 == WordThenSpace(s, q, W_letter)
    IN  IF q2 # 0 /\ LetterGroup(s, q2) # NoMatch
        THEN LetterGroup(s, q2)
        ELSE LetterGroup(s, q)

\* (?:the\s+)?(?:letter\s+)?([a-z]) at q
ThePart(s, q) ==
    LET q2 == WordThenSpace(s, q, W_the)
    IN  IF q2 # 0 /\ LetterPart(s, q2) # NoMatch
        THEN LetterPart(s, q2)
        ELSE LetterPart(s, q)

\* \s+(?:the\s+)?(?:letter\s+)?([a-z]) at p
SpacePart(s, p) ==
    LET q == WordThenSpace(s, p, <<>>)
    IN  IF q = 0 THEN NoMatch ELSE ThePart(s, q)

SuffixPart_required(s, p) ==
    IF StartsWithAt(s, p, W_s) /\ SpacePart(s, p + Len(W_s)) # NoMatch
    THEN SpacePart(s, p + Len(W_s))
    ELSE IF StartsWithAt(s, p, W_ing) /\ SpacePart(s, p + Len(W_ing)) # NoMatch
    THEN SpacePart(s, p + Len(W_ing))
    ELSE NoMatch

\* (?:s|ing)? and the rest of the pattern at p: s, then ing, then neither
SuffixPart(s, p) ==
    IF StartsWithAt(s, p, W_s) /\ SpacePart(s, p + Len(W_s)) # NoMatch
    THEN SpacePart(s, p + Len(W_s))
    ELSE IF StartsWithAt(s, p, W_ing) /\ SpacePart(s, p + Len(W_ing)) # NoMatch
    THEN SpacePart(s, p + Len(W_ing))
    ELSE SpacePart(s, p)

\* r"contain(?:s|ing)?\s+(?:the\s+)?(?:letter\s+)?([a-z])" matched at i:
\* group(1), or NoMatch
LetterMatchAt(s, i) ==
    IF StartsWithAt(s, i, W_contain)
    THEN SuffixPart(s, i + Len(W_contain))
    ELSE NoMatch

\* re.search: the match at the leftmost index that has one
LetterMatch(s) ==
    IF \E i \in 1..Len(s) : LetterMatchAt(s, i) # NoMatch
    THEN LetterMatchAt(s, CHOOSE i \in 1..Len(s) :
            /\ LetterMatchAt(s, i) # NoMatch
            /\ \A j \in 1..(i - 1) : LetterMatchAt(s, j) = NoMatch)
    ELSE NoMatch

\* filters[k] = v
Put(d, k, v) == [x \in (DOMAIN d) \cup {k} |-> IF x = k THEN v ELSE d[x]]

parse_natural_language(q) ==
    LET query_lower == Strip(LowerStr(q))
        f0 == <<>>
        f1 == IF Contains(query_lower, W_palindrom) \/ Contains(query_lower, W_palindromic)
              THEN Put(f0, "is_palindrome", TRUE) ELSE f0
        f2 == IF Contains(query_lower, W_single_word) \/ Contains(query_lower, W_one_word)
              THEN Put(f1, "word_count", 1)
              ELSE IF Contains(query_lower, W_two_word)
              THEN Put(f1, "word_count", 2) ELSE f1
        f3 == IF \E i \in 1..Len(query_lower) : LongerThanAt(query_lower, i)
              THEN Put(f2, "min_length", LongerThanGroup(query_lower) + 1) ELSE f2
        f4 == IF LetterMatch(query_lower) # NoMatch
              THEN Put(f3, "contains_character", <<LetterMatch(query_lower)>>) ELSE f3
        f5 == IF Contains(query_lower, W_first_vowel)
              THEN Put(f4, "contains_character", <<"a">>) ELSE f4
    IN  f5

(***************************** handlers: create, get, delete ****************)
Reply(f, status, body) == [file |-> f, status |-> status, body |-> body]

create_string_overwrite(f, v, t) ==
    LET analyzed_data == analyze_string(v, t)
    IN  Reply(save_object(f, sha256_hash(v), analyzed_data), 201, analyzed_data)

create_string(f, v, t) ==
    LET string_id == sha256_hash(v)
        analyzed_data == analyze_string(v, t)
    IN  IF exists(f, string_id)
        THEN Reply(f, 409, None)
        ELSE Reply(save_object(f, string_id, analyzed_data), 201, analyzed_data)

get_string(f, string_value) ==
    LET string_id == sha256_hash(string_value)
    IN  IF ~exists(f, string_id)
        THEN Reply(f, 404, None)
        ELSE Reply(f, 200, get_object(f, string_id))

delete_string(f, string_value) ==
    LET string_id == sha256_hash(string_value)
    IN  IF ~exists(f, string_id)
        THEN Reply(f, 404, None)
        ELSE Reply(delete_object(f, string_id), 204, None)

(***************************** handlers: the two listings *******************)
Has(d, k) == k \in DOMAIN d

\* in: b is a substring of a
InStr(b, a) == Contains(a, b)

\* get_all_strings: a record reaches filtered_strings.append when no
\* `continue` fires
Kept_max_flipped(string_obj, p) ==
    LET props == string_obj.properties
    IN  IF Has(p, "is_palindrome") /\ props.is_palindrome # p["is_palindrome"]
        THEN FALSE
        ELSE IF Has(p, "min_length") /\ props.length < p["min_length"]
        THEN FALSE
        ELSE IF Has(p, "max_length") /\ props.length >= p["max_length"]
        THEN FALSE
        ELSE IF Has(p, "word_count") /\ props.word_count # p["word_count"]
        THEN FALSE
        ELSE IF Has(p, "contains_character")
                /\ ~InStr(p["contains_character"], string_obj.value)
        THEN FALSE
        ELSE TRUE

Kept(string_obj, p) ==
    LET props == string_obj.properties
    IN  IF Has(p, "is_palindrome") /\ props.is_palindrome # p["is_palindrome"]
        THEN FALSE
        ELSE IF Has(p, "min_length") /\ props.length < p["min_length"]
        THEN FALSE
        ELSE IF Has(p, "max_length") /\ props.length > p["max_length"]
        THEN FALSE
        ELSE IF Has(p, "word_count") /\ props.word_count # p["word_count"]
        THEN FALSE
        ELSE IF Has(p, "contains_character")
                /\ ~InStr(p["contains_character"], string_obj.value)
        THEN FALSE
        ELSE TRUE

\* filter_by_natural_language: the if/elif chain on one (filter_key,
\* filter_value) item sets match = False
Mismatch(string_obj, filter_key, filter_value) ==
    LET props == string_obj.properties
    IN  IF filter_key = "is_palindrome" /\ props.is_palindrome # filter_value
        THEN TRUE
        ELSE IF filter_key = "word_count" /\ props.word_count # filter_value
        THEN TRUE
        ELSE IF filter_key = "min_length" /\ props.length < filter_value
        THEN TRUE
        ELSE IF filter_key = "contains_character"
                /\ ~InStr(filter_value, string_obj.value)
        THEN TRUE
        ELSE FALSE

\* match after the loop over parsed_filters.items()
Matched(string_obj, parsed_filters) ==
    \A k \in DOMAIN parsed_filters : ~Mismatch(string_obj, k, parsed_filters[k])

\* list(storage.all().values())
AllStrings(f) == [i \in 1..Len(all(f)) |-> all(f)[i].obj]

\* for string_obj in all_strings: ... filtered_strings.append(string_obj)
RECURSIVE ListLoop_prepend(_, _, _)
ListLoop_prepend(all_strings, p, filtered_strings) ==
    IF all_strings = <<>> THEN filtered_strings
    ELSE ListLoop_prepend(Tail(all_strings), p,
            IF Kept(Head(all_strings), p)
            THEN <<Head(all_strings)>> \o filtered_strings
            ELSE filtered_strings)

RECURSIVE ListLoop(_, _, _)
ListLoop(all_strings, p, filtered_strings) ==
    IF all_strings = <<>> THEN filtered_strings
    ELSE ListLoop(Tail(all_strings), p,
            IF Kept(Head(all_strings), p)
            THEN Append(filtered_strings, Head(all_strings))
            ELSE filtered_strings)

RECURSIVE NLLoop(_, _, _)
NLLoop(all_strings, parsed_filters, filtered_strings) ==
    IF all_strings = <<>> THEN filtered_strings
    ELSE NLLoop(Tail(all_strings), parsed_filters,
            IF Matched(Head(all_strings), parsed_filters)
            THEN Append(filtered_strings, Head(all_strings))
            ELSE filtered_strings)

Filtered_prepend(all_strings, p) == ListLoop_prepend(all_strings, p, <<>>)

Filtered(all_strings, p) == ListLoop(all_strings, p, <<>>)

FiltersApplied(p) ==
    LET a0 == <<>>
        a1 == IF Has(p, "is_palindrome")
              THEN Put(a0, "is_palindrome", p["is_palindrome"]) ELSE a0
        a2 == IF Has(p, "min_length")
              THEN Put(a1, "min_length", p["min_length"]) ELSE a1
        a3 == IF Has(p, "max_length")
              THEN Put(a2, "max_length", p["max_length"]) ELSE a2
        a4 == IF Has(p, "word_count")
              THEN Put(a3, "word_count", p["word_count"]) ELSE a3
        a5 == IF Has(p, "contains_character")
              THEN Put(a4, "contains_character", p["contains_character"]) ELSE a4
    IN  a5

get_all_strings(f, p) ==
    LET filtered_strings == Filtered(AllStrings(f), p)
    IN  Reply(f, 200,
            [data |-> filtered_strings,
             count |-> Len(filtered_strings),
             filters_applied |-> FiltersApplied(p)])

filter_by_natural_language(f, q) ==
    LET parsed_filters == parse_natural_language(q)
        filtered_strings == NLLoop(AllStrings(f), parsed_filters, <<>>)
    IN  Reply(f, 200,
            [data |-> filtered_strings,
             count |-> Len(filtered_strings),
             interpreted_query |->
                [original |-> q, parsed_filters |-> parsed_filters]])

(***************************** requests *************************************)
\* The values the clients send: "", "A a" and "ab".
Values == { <<>>, <<"A", " ", "a">>, <<"a", "b">> }

Idle == [op |-> "none", arg |-> None, status |-> 0, body |-> None]

Answer(op, arg, r) ==
    /\ file' = r.file
    /\ resp' = [op |-> op, arg |-> arg, status |-> r.status, body |-> r.body]

Tick ==
    /\ resp.op = "none"
    /\ now < MaxClock
    /\ now' = now + 1
    /\ UNCHANGED <<file, resp, procs, value, record, query, filters>>

CreateString(v) ==
    /\ resp.op = "none"
    /\ Answer("create", v, create_string(file, v, now))
    /\ UNCHANGED <<now, procs, value, record, query, filters>>

GetString(v) ==
    /\ resp.op = "none"
    /\ Answer("get", v, get_string(file, v))
    /\ UNCHANGED <<now, procs, value, record, query, filters>>

DeleteString(v) ==
    /\ resp.op = "none"
    /\ Answer("delete", v, delete_string(file, v))
    /\ UNCHANGED <<now, procs, value, record, query, filters>>

\* The query parameters of GET /strings: each one absent or one of a few values.
Absent == <<FALSE, 0>>

Given(S) == {<<TRUE, x>> : x \in S}

MkParams(ip, mn, mx, wc, cc) ==
    [k \in {x \in {"is_palindrome", "min_length", "max_length", "word_count",
                   "contains_character"} :
              CASE x = "is_palindrome" -> ip[1]
                [] x = "min_length" -> mn[1]
                [] x = "max_length" -> mx[1]
                [] x = "word_count" -> wc[1]
                [] OTHER -> cc[1]} |->
        CASE k = "is_palindrome" -> ip[2]
          [] k = "min_length" -> mn[2]
          [] k = "max_length" -> mx[2]
          [] k = "word_count" -> wc[2]
          [] OTHER -> cc[2]]

Params ==
    {MkParams(ip, mn, mx, wc, cc) :
        ip \in {Absent} \cup Given(BOOLEAN),
        mn \in {Absent} \cup Given(0..MaxLength),
        mx \in {Absent} \cup Given(0..MaxLength),
        wc \in {Absent} \cup Given(0..MaxWords),
        cc \in {Absent} \cup Given({<<>>, <<"A">>, <<"b">>})}

\* The queries of GET /strings/filter-by-natural-language.
NLQueries ==
    { <<>>,
      <<"P", "a", "l", "i", "n", "d", "r", "o", "m", "i", "c", " ", "s", "t", "r", "i", "n", "g", "s">>,
      <<"s", "i", "n", "g", "l", "e", " ", "w", "o", "r", "d">>,
      <<"t", "w", "o", " ", "w", "o", "r", "d", "s", " ", "l", "o", "n", "g", "e", "r", " ", "t", "h", "a", "n", " ", "1">>,
      <<"l", "o", "n", "g", "e", "r", " ", "t", "h", "a", "n", " ", "2">>,
      <<"c", "o", "n", "t", "a", "i", "n", "i", "n", "g", " ", "t", "h", "e", " ", "l", "e", "t", "t", "e", "r", " ", "b">>,
      <<"f", "i", "r", "s", "t", " ", "v", "o", "w", "e", "l">>,
      <<"p", "a", "l", "i", "n", "d", "r", "o", "m", " ", "c", "o", "n", "t", "a", "i", "n", "s", " ", "A">> }

GetAllStrings(p) ==
    /\ resp.op = "none"
    /\ Answer("list", p, get_all_strings(file, p))
    /\ UNCHANGED <<now, procs, value, record, query, filters>>

FilterByNaturalLanguage(q) ==
    /\ resp.op = "none"
    /\ Answer("nl", q, filter_by_natural_language(file, q))
    /\ UNCHANGED <<now, procs, value, record, query, filters>>

\* The response leaves the server; the next request can be served.
SendResponse ==
    /\ resp.op # "none"
    /\ resp' = Idle
    /\ UNCHANGED <<file, now, procs, value, record, query, filters>>

Init ==
    /\ file = EmptyFile
    /\ now = 0
    /\ resp = Idle
    /\ procs = <<>>
    /\ value = <<>>
    /\ record = None
    /\ query = <<>>
    /\ filters = <<>>

Next ==
    \/ Tick
    \/ \E v \in Values : CreateString(v)
    \/ \E v \in Values : GetString(v)
    \/ \E v \in Values : DeleteString(v)
    \/ \E p \in Params : GetAllStrings(p)
    \/ \E q \in NLQueries : FilterByNaturalLanguage(q)
    \/ SendResponse

Spec == Init /\ [][Next]_vars

(***************************** the analyzer alone ***************************)
\* Every string of at most n of these characters.
Strings(n) ==
    UNION {[1..k -> {"a", "A", " ", "!", "1", "SIGMA", "sigma"}] : k \in 0..n}

InitAnalyze ==
    /\ file = EmptyFile
    /\ now = 0
    /\ resp = Idle
    /\ procs = <<>>
    /\ value \in Strings(MaxLen)
    /\ record = None
    /\ query = <<>>
    /\ filters = <<>>

Analyze ==
    /\ record = None
    /\ record' = analyze_string(value, now)
    /\ UNCHANGED <<file, now, resp, procs, value, query, filters>>

NextAnalyze == Analyze

SpecAnalyze == InitAnalyze /\ [][NextAnalyze]_vars

(***************************** the parser alone *****************************)
Tokens ==
    { <<>>, W_contain, W_contain \o W_s, W_contain \o W_ing, W_the, W_letter,
      <<"X">>, W_first_vowel }

RECURSIVE Join(_, _)
Join(ts, sep) ==
    IF ts = <<>> THEN <<>>
    ELSE IF Len(ts) = 1 THEN ts[1]
    ELSE ts[1] \o sep \o Join(Tail(ts), sep)

\* At most n tokens, joined by one space or by nothing.
Queries(n) ==
    {Join(ts, sep) :
        ts \in UNION {[1..k -> Tokens] : k \in 0..n},
        sep \in {<<" ">>, <<>>}}

InitParse ==
    /\ file = EmptyFile
    /\ now = 0
    /\ resp = Idle
    /\ procs = <<>>
    /\ value = <<>>
    /\ record = None
    /\ query \in Queries(MaxTokens)
    /\ filters = None

Parse ==
    /\ filters = None
    /\ filters' = parse_natural_language(query)
    /\ UNCHANGED <<file, now, resp, procs, value, record, query>>

NextParse == Parse

SpecParse == InitParse /\ [][NextParse]_vars

(***************************** concurrent requests **************************)
\* Server processes that share data/strings.json, each serving one create or
\* delete request; a step is one file operation of the handler.
Procs == 1..NumProcs

KeptValue == <<"a", "b">>

ConcValues == Values \ {KeptValue}

Entry(v) == [key |-> sha256_hash(v), obj |-> analyze_string(v, 0)]

NoRequest ==
    [pc |-> "idle", op |-> "none", arg |-> <<>>, data |-> <<>>, obj |-> None,
     status |-> 0]

InitConc ==
    /\ file \in { Dumped(<<Entry(KeptValue)>>),
                  Dumped(<<Entry(KeptValue), Entry(<<>>)>>),
                  Dumped(<<Entry(<<>>), Entry(KeptValue), Entry(<<"A", " ", "a">>)>>) }
    /\ now = 0
    /\ resp = Idle
    /\ procs = [p \in Procs |-> NoRequest]
    /\ value = <<>>
    /\ record = None
    /\ query = <<>>
    /\ filters = <<>>

Rest == <<now, resp, value, record, query, filters>>

\* a request reaches process p
Start(p, op, v) ==
    /\ procs[p].pc = "idle"
    /\ procs' = [procs EXCEPT ![p].pc = "exists", ![p].op = op, ![p].arg = v]
    /\ UNCHANGED <<file, Rest>>

\* storage.exists(string_id) and the handler's branch on it
CheckExists(p) ==
    /\ procs[p].pc = "exists"
    /\ LET found == exists(file, sha256_hash(procs[p].arg))
       IN  procs' =
             IF procs[p].op = "create"
             THEN IF found
                  THEN [procs EXCEPT ![p].pc = "done", ![p].status = 409]
                  ELSE [procs EXCEPT ![p].pc = "analyze"]
             ELSE IF ~found
                  THEN [procs EXCEPT ![p].pc = "done", ![p].status = 404]
                  ELSE [procs EXCEPT ![p].pc = "read"]
    /\ UNCHANGED <<file, Rest>>

\* analyzed_data = analyze_string(request.value)
AnalyzeStep(p) ==
    /\ procs[p].pc = "analyze"
    /\ procs' = [procs EXCEPT ![p].pc = "read",
                              ![p].obj = analyze_string(procs[p].arg, now)]
    /\ UNCHANGED <<file, Rest>>

\* data = self.all() and the change to data, in save_object or delete_object
ReadAll(p) ==
    /\ procs[p].pc = "read"
    /\ LET key == sha256_hash(procs[p].arg)
           data == all(file)
       IN  procs' =
             IF procs[p].op = "create"
             THEN [procs EXCEPT ![p].pc = "open",
                                ![p].data = DictSet(data, key, procs[p].obj)]
             ELSE IF KeyIn(data, key)
                  THEN [procs EXCEPT ![p].pc = "open",
                                     ![p].data = DictDel(data, key)]
                  ELSE [procs EXCEPT ![p].pc = "done", ![p].status = 204]
    /\ UNCHANGED <<file, Rest>>

\* with open(self.file_path, 'w') as f: the file is truncated
OpenForWrite(p) ==
    /\ procs[p].pc = "open"
    /\ file' = Truncated
    /\ procs' = [procs EXCEPT ![p].pc = "dump"]
    /\ UNCHANGED Rest

\* json.dump(data, f, indent=2) and the close that flushes it, from offset 0.
\* Over bytes another process wrote since the truncation, the result is this
\* document, or not a document when the other one was longer.
DumpAndClose(p) ==
    /\ procs[p].pc = "dump"
    /\ \/ file' = Dumped(procs[p].data)
       \/ /\ file.text # "empty"
          /\ file' = Garbled
    /\ procs' = [procs EXCEPT ![p].pc = "done",
                   ![p].status = IF procs[p].op = "create" THEN 201 ELSE 204]
    /\ UNCHANGED Rest

NextConc ==
    \/ \E p \in Procs, v \in ConcValues : Start(p, "create", v)
    \/ \E p \in Procs, v \in ConcValues : Start(p, "delete", v)
    \/ \E p \in Procs : CheckExists(p)
    \/ \E p \in Procs : AnalyzeStep(p)
    \/ \E p \in Procs : ReadAll(p)
    \/ \E p \in Procs : OpenForWrite(p)
    \/ \E p \in Procs : DumpAndClose(p)

SpecConc == InitConc /\ [][NextConc]_vars

(***************************** properties: the store ************************)
Keys(f) == {f.entries[i].key : i \in 1..Len(f.entries)}

Stored(f) == {f.entries[i] : i \in 1..Len(f.entries)}

Holds_value(f, s) == \E i \in 1..Len(f.entries) : f.entries[i].obj.value = s

\* C1: a create of a value whose fingerprint is already a key of the store is
\* answered 409 and leaves the file as it was (the stored record and its
\* created_at stay); a create of a value whose fingerprint is absent is
\* answered 201 and adds exactly one record, under that fingerprint, after
\* the records already there.
C1_CreateConflictOrAdd ==
    [][(resp.op = "none" /\ resp'.op = "create") =>
        LET k == sha256_hash(resp'.arg)
            n == Len(file.entries)
        IN  IF k \in Keys(file)
            THEN resp'.status = 409 /\ file' = file
            ELSE /\ resp'.status = 201
                 /\ file'.text = "json"
                 /\ Len(file'.entries) = n + 1
                 /\ SubSeq(file'.entries, 1, n) = file.entries
                 /\ file'.entries[n + 1].key = k
                 /\ file'.entries[n + 1].obj = resp'.body
                 /\ resp'.body.value = resp'.arg
                 /\ resp'.body.created_at = now]_vars

\* a duplicate create refused later than the record was created
C1_Witness ==
    /\ resp.op = "create"
    /\ resp.status = 409
    /\ now = 1
    /\ \E e \in Stored(file) : e.obj.value = resp.arg /\ e.obj.created_at = 0

\* C2: a successful create(s) leaves a record of s in the store, every
\* request other than delete(s) keeps it there, and a get(s) issued while it
\* is there is answered 200 with a record whose value is s.
C2_RoundTrip ==
    [][/\ (resp.op = "none" /\ resp'.op = "create" /\ resp'.status = 201)
            => Holds_value(file', resp'.arg)
       /\ \A s \in Values :
            (Holds_value(file, s) /\ ~(resp'.op = "delete" /\ resp'.arg = s))
                => Holds_value(file', s)
       /\ (resp.op = "none" /\ resp'.op = "get" /\ Holds_value(file, resp'.arg))
            => /\ resp'.status = 200
               /\ resp'.body.value = resp'.arg]_vars

\* a get answered 200 for a value that is not the first record of the store
C2_Witness ==
    /\ resp.op = "get"
    /\ resp.status = 200
    /\ Len(file.entries) = 2
    /\ file.entries[1].obj.value # resp.arg

\* C3: a delete(s) whose fingerprint is a key is answered 204 and removes that
\* entry and no other; a delete(s) or get(s) whose fingerprint is no key is
\* answered 404 and leaves the file as it was; and a fingerprint that is no
\* key stays none until a create(s).
C3_Delete ==
    [][/\ (resp.op = "none" /\ resp'.op = "delete") =>
            LET k == sha256_hash(resp'.arg)
            IN  IF k \in Keys(file)
                THEN /\ resp'.status = 204
                     /\ file'.text = "json"
                     /\ Stored(file') = {e \in Stored(file) : e.key # k}
                     /\ Len(file'.entries) = Len(file.entries) - 1
                ELSE resp'.status = 404 /\ file' = file
       /\ (resp.op = "none" /\ resp'.op = "get"
                /\ sha256_hash(resp'.arg) \notin Keys(file))
            => (resp'.status = 404 /\ file' = file)
       /\ \A s \in Values :
            (sha256_hash(s) \notin Keys(file)
                /\ ~(resp'.op = "create" /\ resp'.arg = s))
            => sha256_hash(s) \notin Keys(file')]_vars

\* a delete answered 204 that leaves other records in the store
C3_Witness ==
    /\ resp.op = "delete"
    /\ resp.status = 204
    /\ Len(file.entries) = 2

\* C9: every entry of the store under key k holds a record with id = k,
\* properties.sha256_hash = k and k = sha256_hash(record.value), no two
\* entries hold the same value, and get and the two listings leave the file
\* as it was.
C9_StoreKeys ==
    /\ [](/\ file.text = "json"
          /\ \A i \in 1..Len(file.entries) :
                LET e == file.entries[i]
                IN  /\ e.obj.id = e.key
                    /\ e.obj.properties.sha256_hash = e.key
                    /\ e.key = sha256_hash(e.obj.value)
                    /\ \A j \in 1..Len(file.entries) :
                          file.entries[j].obj.value = e.obj.value => j = i)
    /\ [][(resp.op = "none" /\ resp'.op \in {"get", "list", "nl"})
            => file' = file]_vars

\* a listing answered over a store of three records
C9_Witness ==
    /\ resp.op \in {"list", "nl"}
    /\ Len(file.entries) = 3
    /\ \E e \in Stored(file) : e.obj.value # LowerStr(e.obj.value)

(***************************** properties: the listings *********************)
\* c occurs in v
Occurs(c, v) == \E i \in 0..(Len(v) - Len(c)) : SubSeq(v, i + 1, i + Len(c)) = c

\* every present field of predicate p holds against record r
Satisfies(r, p) ==
    /\ Has(p, "is_palindrome") => r.properties.is_palindrome = p["is_palindrome"]
    /\ Has(p, "min_length") => r.properties.length >= p["min_length"]
    /\ Has(p, "max_length") => r.properties.length <= p["max_length"]
    /\ Has(p, "word_count") => r.properties.word_count = p["word_count"]
    /\ Has(p, "contains_character") => Occurs(p["contains_character"], r.value)

\* C5: the data of GET /strings holds a stored record iff every present
\* parameter holds against it; with no parameter it holds every record.
C5_Conjunction ==
    resp.op = "list" =>
        /\ \A e \in Stored(file) :
              (\E j \in 1..Len(resp.body.data) : resp.body.data[j] = e.obj)
                  <=> Satisfies(e.obj, resp.arg)
        /\ (DOMAIN resp.arg = {}) => Len(resp.body.data) = Len(file.entries)

\* all five parameters given, some record listed and some record left out
C5_Witness ==
    /\ resp.op = "list"
    /\ Cardinality(DOMAIN resp.arg) = 5
    /\ Len(resp.body.data) >= 1
    /\ Len(resp.body.data) < Len(file.entries)

\* the predicate a listing applied
Predicate ==
    IF resp.op = "list" THEN resp.arg
    ELSE resp.body.interpreted_query.parsed_filters

\* C6: the data of either listing is the store's records that satisfy the
\* predicate, each once and in the store's order, and count is its length.
C6_OrderPreserved ==
    resp.op \in {"list", "nl"} =>
        /\ resp.body.data =
              SelectSeq(AllStrings(file), LAMBDA r : Satisfies(r, Predicate))
        /\ resp.body.count = Len(resp.body.data)

\* a listing that returns two records and leaves one out
C6_Witness ==
    /\ resp.op = "list"
    /\ Len(resp.body.data) = 2
    /\ Len(file.entries) = 3
    /\ DOMAIN resp.arg # {}

(***************************** properties: the analyzer *********************)
\* the value lower-cased, without its non-alphanumeric characters
Cleaned(v) == SelectSeq(LowerStr(v), IsAlnum)

SwapCase(c) ==
    IF c = "SIGMA" THEN "sigma"
    ELSE IF c = "sigma" THEN "SIGMA"
    ELSE IF c \in UpperLetters THEN Lower(c)
    ELSE IF \E i \in 1..Len(LowerSeq) : LowerSeq[i] = c
    THEN UpperSeq[CHOOSE i \in 1..Len(LowerSeq) : LowerSeq[i] = c]
    ELSE c

Flagged(v) == analyze_string(v, 0).properties.is_palindrome

\* C7: is_palindrome is true iff the cleaned value reads the same from both
\* ends; it is true when the cleaned value is empty; and changing the case
\* of a character or inserting a punctuation or space character leaves it
\* as it was.
C7_Palindrome ==
    record # None =>
        LET c == Cleaned(value)
            flag == record.properties.is_palindrome
        IN  /\ flag <=> \A i \in 1..Len(c) : c[i] = c[Len(c) + 1 - i]
            /\ (\A i \in 1..Len(value) : ~IsAlnum(value[i])) => flag
            /\ \A i \in 1..Len(value) :
                  Flagged([value EXCEPT ![i] = SwapCase(value[i])]) = flag
            /\ \A i \in 0..Len(value) : \A x \in {"!", " "} :
                  Flagged(SubSeq(value, 1, i) \o <<x>> \o SubSeq(value, i + 1, Len(value)))
                      = flag

\* C7 without its last part: is_palindrome is true iff the cleaned value reads
\* the same from both ends, and it is true when the cleaned value is empty.
C7_CleanedPalindrome ==
    record # None =>
        LET c == Cleaned(value)
            flag == record.properties.is_palindrome
        IN  /\ flag <=> \A i \in 1..Len(c) : c[i] = c[Len(c) + 1 - i]
            /\ (\A i \in 1..Len(value) : ~IsAlnum(value[i])) => flag

(***************************** properties: the parser ***********************)
\* the indices just after word w and a run of whitespace, for w at index p
After(s, p, w) ==
    IF StartsWithAt(s, p, w)
    THEN {q \in (p + Len(w) + 1)..(Len(s) + 1) :
            \A j \in (p + Len(w))..(q - 1) : IsSpace(s[j])}
    ELSE {}

AfterAny(s, P, w) == UNION {After(s, p, w) : p \in P}

\* <<the, letter, L>>: the ways the phrase ends in a lowercase letter L when
\* it begins at i with "contain" and a suffix of sufs, with (1) or without
\* (0) "the" and "letter"
Endings(s, i, sufs) ==
    LET P1 == UNION {After(s, i, W_contain \o suf) : suf \in sufs}
        P2(t) == IF t = 1 THEN AfterAny(s, P1, W_the) ELSE P1
        P3(t, l) == IF l = 1 THEN AfterAny(s, P2(t), W_letter) ELSE P2(t)
    IN  UNION {{<<e[1], e[2], s[q]>> :
                    q \in {x \in P3(e[1], e[2]) : x <= Len(s) /\ s[x] \in LowerLetters}} :
                e \in {0, 1} \X {0, 1}}

\* the ending that takes "the" if any does, and then "letter" if any does
Preferred(E) ==
    CHOOSE e \in E : \A d \in E :
        e[1] > d[1] \/ (e[1] = d[1] /\ e[2] >= d[2])

\* what contains_character is to be: <<present, letter>>
Expected(q, sufs) ==
    LET s == Strip(LowerStr(q))
        starts == {i \in 1..Len(s) :
                     StartsWithAt(s, i, W_contain) /\ Endings(s, i, sufs) # {}}
    IN  IF Contains(s, W_first_vowel) THEN <<TRUE, "a">>
        ELSE IF starts = {} THEN <<FALSE, "">>
        ELSE <<TRUE,
               Preferred(Endings(s, CHOOSE i \in starts : \A j \in starts : i <= j,
                                 sufs))[3]>>

Agrees(f, x) ==
    /\ Has(f, "contains_character") <=> x[1]
    /\ x[1] => f["contains_character"] = <<x[2]>>

\* C8 as stated: contains_character is the letter that follows "contains" or
\* "containing", an optional "the" and an optional "letter" in the normalized
\* query, "a" when the query has "first vowel", and absent when it has neither.
C8_AsStated ==
    filters # None => Agrees(filters, Expected(query, {W_s, W_ing}))

\* C8 amended: the phrase may also begin with the bare word "contain".
C8_Character ==
    filters # None => Agrees(filters, Expected(query, {<<>>, W_s, W_ing}))

\* the letter is taken after a bare "contain"
C8_Witness ==
    /\ filters # None
    /\ Has(filters, "contains_character")
    /\ filters["contains_character"] = <<"x">>
    /\ ~Contains(LowerStr(query), W_contain \o W_s)
    /\ ~Contains(LowerStr(query), W_contain \o W_ing)
    /\ Contains(LowerStr(query), W_the)

(***************************** properties: concurrent requests **************)
\* C4: of two concurrent creates of the same string at most one is answered
\* 201.
C4_OneCreateWins ==
    \A p \in DOMAIN procs : \A q \in DOMAIN procs :
        (/\ p # q
         /\ procs[p].op = "create" /\ procs[q].op = "create"
         /\ procs[p].arg = procs[q].arg
         /\ procs[p].pc = "done" /\ procs[q].pc = "done")
        => ~(procs[p].status = 201 /\ procs[q].status = 201)

\* C10: once concurrent creates and deletes of distinct strings have all
\* finished, the file is readable, every string whose create was answered 201
\* is in it, every string whose delete was answered 204 is not, and the
\* record no request named is still there.
C10_NoLostRecords ==
    (/\ DOMAIN procs # {}
     /\ \A p \in DOMAIN procs : procs[p].pc = "done"
     /\ \A p \in DOMAIN procs : \A q \in DOMAIN procs :
            p # q => procs[p].arg # procs[q].arg)
    => /\ file.text = "json"
       /\ exists(file, sha256_hash(KeptValue))
       /\ \A p \in DOMAIN procs :
            /\ (procs[p].op = "create" /\ procs[p].status = 201)
                  => exists(file, sha256_hash(procs[p].arg))
            /\ (procs[p].op = "delete" /\ procs[p].status = 204)
                  => ~exists(file, sha256_hash(procs[p].arg))

====
